---- MODULE Spec2Model ----
(***************************************************************************)
(* A model of the mock ledger of openchain/consensus/obcpbft               *)
(* (statetransfer_mock_test.go): the hash-linked block store and its       *)
(* uint64 state, the transaction-batch executor, the chain verifier and    *)
(* the remote synchronisation streams.                                     *)
(*                                                                         *)
(* Byte strings are sequences of 0..255.  A uint64 is kept at full width   *)
(* as its ten base-128 digits, least significant first (the tenth digit    *)
(* is the top bit, 0 or 1): this is the digit string binary.Uvarint        *)
(* decodes and binary.PutUvarint encodes, and arithmetic on it wraps at    *)
(* 2^64 as Go's does.                                                      *)
(***************************************************************************)
EXTENDS Integers, Sequences, FiniteSets, TLC

(***************************************************************************)
(* Bounds of the model.                                                    *)
(***************************************************************************)
\* Highest block height the executor is driven to.
MaxHeight == 2
\* Longest transaction list passed to one call, and longest pending list.
MaxTxs == 2
\* Highest block index written with putBlock and given to verifyBlockchain.
MaxIndex == 2
\* applyStateDelta is driven while the state stays within MaxState of zero
\* (on either side: below zero the uint64 has wrapped).
MaxState == 2
\* Highest block height of the remote ledger, and highest index requested
\* from it.
MaxPeerHeight == 3

(***************************************************************************)
(* encoding/binary and fmt as used by the ledger.                          *)
(***************************************************************************)
\* binary.MaxVarintLen64
MaxVarintLen64 == 10

Digits == 1..MaxVarintLen64

\* The modulus of digit i of a uint64: seven bits, the last digit one bit.
DigitBase(i) == IF i = MaxVarintLen64 THEN 2 ELSE 128

U64Zero == [i \in Digits |-> 0]

RECURSIVE NatDigits(_, _)
NatDigits(n, i) ==
    IF i > MaxVarintLen64 THEN <<>>
    ELSE <<n % 128>> \o NatDigits(n \div 128, i + 1)

\* uint64(n) for a small natural n.
U64(n) == NatDigits(n, 1)

RECURSIVE AddFrom(_, _, _, _)
AddFrom(a, b, i, carry) ==
    IF i > MaxVarintLen64 THEN <<>>
    ELSE LET s == a[i] + b[i] + carry
         IN  <<s % DigitBase(i)>> \o AddFrom(a, b, i + 1, s \div 128)

\* a + b on uint64 (wraps at 2^64).
AddU64(a, b) == AddFrom(a, b, 1, 0)

RECURSIVE SubFrom(_, _, _, _)
SubFrom(a, b, i, borrow) ==
    IF i > MaxVarintLen64 THEN <<>>
    ELSE LET d == a[i] - b[i] - borrow
         IN  <<d % DigitBase(i)>> \o SubFrom(a, b, i + 1, IF d < 0 THEN 1 ELSE 0)

\* a - b on uint64 (wraps at 2^64).
SubU64(a, b) == SubFrom(a, b, 1, 0)

\* Long division of a uint64 by ten, from digit i down with remainder rem
\* carried in: the quotient's digits (least significant first) and the
\* remainder.  (A value is bound by "\in {...}" where it is used twice, so
\* that it is computed once.)
RECURSIVE DivTenFrom(_, _, _)
DivTenFrom(a, i, rem) ==
    IF i = 0 THEN [q |-> <<>>, r |-> rem]
    ELSE CHOOSE d \in {[q |-> Append(rest.q, (rem * 128 + a[i]) \div 10), r |-> rest.r] :
                          rest \in {DivTenFrom(a, i - 1, (rem * 128 + a[i]) % 10)}} : TRUE

\* The decimal digits of a, as ASCII; none for zero.
RECURSIVE DecimalDigits(_)
DecimalDigits(a) ==
    IF a = U64Zero THEN <<>>
    ELSE CHOOSE s \in {DecimalDigits(d.q) \o <<48 + d.r>> :
                          d \in {DivTenFrom(a, MaxVarintLen64, 0)}} : TRUE

\* []byte(fmt.Sprintf("%d", n)) for a uint64 n.
SprintfD(n) ==
    CHOOSE s \in {IF a = U64Zero THEN <<48>> ELSE DecimalDigits(a) : a \in {n}} : TRUE

\* binary.Uvarint(buf): the decoded value x and the number n of bytes read;
\* n = 0 when buf ends inside the number, n < 0 when the number overflows 64
\* bits.
RECURSIVE UvarintFrom(_, _, _)
UvarintFrom(buf, i, acc) ==
    IF i > Len(buf) THEN [x |-> U64Zero, n |-> 0]
    ELSE IF i > MaxVarintLen64 THEN [x |-> U64Zero, n |-> -i]
    ELSE IF buf[i] < 128
         THEN IF i = MaxVarintLen64 /\ buf[i] > 1
              THEN [x |-> U64Zero, n |-> -i]
              ELSE [x |-> [k \in Digits |->
                             IF k < i THEN acc[k] ELSE IF k = i THEN buf[i] ELSE 0],
                    n |-> i]
         ELSE UvarintFrom(buf, i + 1, acc \o <<buf[i] % 128>>)

Uvarint(buf) == UvarintFrom(buf, 1, <<>>)

\* The index of the highest non-zero digit of a (1 when a is zero).
RECURSIVE TopDigit(_, _)
TopDigit(a, i) == IF i = 1 \/ a[i] # 0 THEN i ELSE TopDigit(a, i - 1)

\* SimpleEncodeUint64: binary.PutUvarint into a zeroed buffer of
\* MaxVarintLen64 bytes.
SimpleEncodeUint64(num) ==
    LET top == TopDigit(num, MaxVarintLen64)
    IN  [i \in Digits |->
            IF i < top THEN num[i] + 128 ELSE IF i = top THEN num[i] ELSE 0]

(***************************************************************************)
(* Values of the ledger.                                                   *)
(***************************************************************************)
\* A []byte: nil or a byte string (the code tests Payload == nil, and
\* reflect.DeepEqual tells a nil slice from an empty one).
NilBytes == [nil |-> TRUE, bytes |-> <<>>]
Bytes(b) == [nil |-> FALSE, bytes |-> b]

\* A []*protos.Transaction: nil, or the sequence of the Payloads of the
\* transaction objects it points to.
NilTxs == [nil |-> TRUE, elems |-> <<>>]
Txs(payloads) == [nil |-> FALSE, elems |-> payloads]

\* error values
NoErr == "nil"
ErrBatchActive == "Tx batch is already active"
ErrInvalidBatchID == "Invalid batch ID"
ErrBatchMismatch == "Tx list does not match executed Tx batch"
ErrNotFound == "Block not found"
ErrDelta == "State delta could not be applied, was not a uint64"

\* The nil interface{} value of a batch ID.
NilID == "nil"

\* "Genesis"
Genesis == <<71, 101, 110, 101, 115, 105, 115>>
\* "GenesisHash"
GenesisHash == <<71, 101, 110, 101, 115, 105, 115, 72, 97, 115, 104>>
\* "WRONG"
Wrong == <<87, 82, 79, 78, 71>>
\* "ConsensusMetaData:"
MetaDataPrefix == <<67, 111, 110, 115, 101, 110, 115, 117, 115, 77, 101, 116, 97,
                    68, 97, 116, 97, 58>>
\* "BlockHash:"
BlockHashPrefix == <<66, 108, 111, 99, 107, 72, 97, 115, 104, 58>>

\* A protos.Block.  Transactions holds the payloads of the block's
\* transactions: once a block is built every payload in it is non-nil or
\* belongs to a transaction the ledger never writes again, so the block is
\* kept by value.
Block(txs, md, prev, sh) ==
    [Transactions |-> txs, ConsensusMetadata |-> md,
     PreviousBlockHash |-> prev, StateHash |-> sh]

NoBlock == Block(<<>>, <<>>, <<>>, <<>>)

\* buffer[i%binary.MaxVarintLen64] += b over the bytes of one payload
\* (a byte wraps at 256).
RECURSIVE FoldBytes(_, _, _)
FoldBytes(buffer, bytes, i) ==
    IF i > Len(bytes) THEN buffer
    ELSE FoldBytes([buffer EXCEPT ![((i - 1) % MaxVarintLen64) + 1] =
                        (@ + bytes[i]) % 256],
                   bytes, i + 1)

\* The same over every payload of a transaction list, in order.
RECURSIVE FoldPayloads(_, _, _)
FoldPayloads(buffer, payloads, k) ==
    IF k > Len(payloads) THEN buffer
    ELSE FoldPayloads(FoldBytes(buffer, payloads[k].bytes, 1), payloads, k + 1)

ZeroBuffer == [i \in Digits |-> 0]

\* SimpleHashBlock: "BlockHash:%s-%s-%s" of the folded payload bytes, the
\* state hash and the consensus metadata.
SimpleHashBlock(block) ==
    BlockHashPrefix \o FoldPayloads(ZeroBuffer, block.Transactions, 1)
        \o <<45>> \o block.StateHash \o <<45>> \o block.ConsensusMetadata

HashBlock(block) == SimpleHashBlock(block)

\* SimpleGetState: blockNumber * (blockNumber + 1) / 2.
SimpleGetState(blockNumber) ==
    IF blockNumber % 2 = 0
    THEN (blockNumber \div 2) * (blockNumber + 1)
    ELSE ((blockNumber + 1) \div 2) * blockNumber

SimpleGetStateDelta(blockNumber) == SimpleEncodeUint64(U64(blockNumber))

SimpleGetStateHash(blockNumber) == SprintfD(U64(SimpleGetState(blockNumber)))

SimpleGetTransactions(blockNumber) == <<Bytes(SimpleGetStateDelta(blockNumber))>>

SimpleGetConsensusMetadata(blockNumber) == MetaDataPrefix \o SprintfD(U64(blockNumber))

\* SimpleGetBlockHash; blockNumber = -1 stands for ^uint64(0), which is what
\* blockNumber - 1 is for block 0.
SimpleGetBlockHash(blockNumber) ==
    IF blockNumber = -1 THEN GenesisHash
    ELSE SimpleHashBlock(Block(SimpleGetTransactions(blockNumber),
                               SimpleGetConsensusMetadata(blockNumber),
                               <<>>,
                               SimpleGetStateHash(blockNumber)))

SimpleGetBlock(blockNumber) ==
    Block(SimpleGetTransactions(blockNumber),
          SimpleGetConsensusMetadata(blockNumber),
          SimpleGetBlockHash(blockNumber - 1),
          SimpleGetStateHash(blockNumber))

\* The block TestMockLedger overwrites block 3 with.
WrongBlock == Block(<<>>, <<>>, Wrong, Wrong)

(***************************************************************************)
(* The state of a MockLedger.                                              *)
(***************************************************************************)
VARIABLES
    blocks,        \* mock.blocks: index -> block, for the indices stored
    blockHeight,   \* mock.blockHeight
    state,         \* mock.state, a uint64
    txID,          \* mock.txID
    curBatch,      \* mock.curBatch
    ret,           \* the last call made on the ledger and what it returned
    peerHeight,    \* (*mock.remoteLedgers)[replicaID].blockHeight
    req,           \* the remote request made, and what the call returned
    producer,      \* the goroutine of GetRemoteBlocks / GetRemoteStateDeltas
    forwarder,     \* the goroutine of GetRemoteStateSnapshot
    closed,        \* the channels closed so far: "res", and the snapshot's "rds"
    received,      \* the SyncBlocks / SyncStateDeltas the consumer has received
    snapshot,      \* the SyncStateSnapshot chunks the consumer has received
    consumer,      \* the caller of a remote request, ranging over its channel
    committer,     \* a thread inside CommitTxBatch, and its local variables
    mutex          \* mock.mutex: "free", or the thread that holds it

ledgerVars == <<blocks, blockHeight, state, txID, curBatch, ret>>

syncVars == <<peerHeight, req, producer, forwarder, closed, received, snapshot>>

threadVars == <<consumer, committer, mutex>>

vars == <<blocks, blockHeight, state, txID, curBatch, ret,
          peerHeight, req, producer, forwarder, closed, received, snapshot,
          consumer, committer, mutex>>

(***************************************************************************)
(* Inputs of the calls.                                                    *)
(***************************************************************************)
\* 2^64 - 1 as a delta: the bytes ff ff ff ff ff ff ff ff ff 01.
MaxDelta == [i \in Digits |-> IF i = MaxVarintLen64 THEN 1 ELSE 255]

\* Payloads a caller gives a transaction: none, or the delta 2^64 - 1 (one
\* makes the state wrap, two fold into bytes that are no uvarint).
Payloads == {NilBytes, Bytes(MaxDelta)}

BatchIDs == {NilID, "a", "b"}

RECURSIVE SeqsUpTo(_, _)
SeqsUpTo(S, n) ==
    IF n = 0 THEN {<<>>}
    ELSE LET shorter == SeqsUpTo(S, n - 1)
         IN  shorter \cup {Append(q, x) : q \in {r \in shorter : Len(r) = n - 1}, x \in S}

\* Transaction lists of new transaction objects: nil, empty, up to MaxTxs.
TxLists == {NilTxs} \cup {Txs(q) : q \in SeqsUpTo(Payloads, MaxTxs)}

\* The transaction list argument of commit and preview.  The code writes to
\* the transactions it is given (a nil Payload is filled in), and the pending
\* list points to the transactions ExecTXs was given: own says whether the
\* argument's transactions are the very objects of the pending list, in
\* order (a caller that commits the slice it executed), or objects of the
\* caller's that the pending list does not point to.
TxArg(nil, elems, own) == [nil |-> nil, elems |-> elems, own |-> own]

TxArgs ==
    {TxArg(l.nil, l.elems, FALSE) : l \in TxLists}
        \cup {TxArg(FALSE, curBatch.elems, TRUE)}
        \cup {TxArg(TRUE, curBatch.elems, TRUE) : x \in {y \in {0} : Len(curBatch.elems) = 0}}

Metadatas == {<<109>>}

Indices == 0..MaxIndex

\* Blocks a state-transfer caller writes with putBlock: the simple blocks of
\* a remote ledger, and the forged block of TestMockLedger.
PutBlocks == {SimpleGetBlock(n) : n \in Indices} \cup {WrongBlock}

\* Deltas handed to applyStateDelta: the simple deltas, 2^64 - 1, and three
\* byte strings that are no uvarint (empty, cut short, overflowing).
Deltas == {SimpleGetStateDelta(n) : n \in Indices}
              \cup {MaxDelta, <<>>, <<128>>, [i \in Digits |-> 255]}

PeerHeights == 0..MaxPeerHeight

\* start and finish of a remote request: every index of the highest peer and
\* one index past it.
SyncIndices == 0..MaxPeerHeight

StateWindow == {U64(k) : k \in 0..MaxState}
                   \cup {SubU64(U64Zero, U64(k)) : k \in 1..MaxState}

\* What a call returned.  A successful preview also keeps its arguments, as
\* the call left them.
Ret(op, err, hasBlock, block, index) ==
    [op |-> op, err |-> err, hasBlock |-> hasBlock, block |-> block,
     index |-> index, id |-> NilID, txs |-> TxArg(TRUE, <<>>, FALSE), md |-> <<>>]

RetErr(op, err) == Ret(op, err, FALSE, NoBlock, 0)

(***************************************************************************)
(* Ledger operations.                                                      *)
(***************************************************************************)
\* mock.blocks[blockNumber] = block
StoreBlock(blks, blockNumber, block) ==
    [i \in DOMAIN blks \cup {blockNumber} |->
        IF i = blockNumber THEN block ELSE blks[i]]

PutBlockHeight_LastWritten(height, blockNumber) == blockNumber + 1

\* The height PutBlock leaves.
PutBlockHeight(height, blockNumber) ==
    IF blockNumber >= height THEN blockNumber + 1 ELSE height

\* ApplyStateDeltaTo with the unapply flag ignored: the delta is always added.
ApplyStateDeltaTo_AcceptsShort(s, delta, unapply) ==
    LET d == Uvarint(delta)
    IN  IF d.n < 0 THEN [err |-> ErrDelta, state |-> s]
        ELSE IF ~unapply THEN [err |-> NoErr, state |-> AddU64(s, d.x)]
        ELSE [err |-> NoErr, state |-> SubU64(s, d.x)]

ApplyStateDeltaTo_AlwaysAdds(s, delta, unapply) ==
    LET d == Uvarint(delta)
    IN  IF d.n <= 0 THEN [err |-> ErrDelta, state |-> s]
        ELSE [err |-> NoErr, state |-> AddU64(s, d.x)]

\* ApplyStateDelta on state s: the error returned and the state left.
ApplyStateDeltaTo(s, delta, unapply) ==
    LET d == Uvarint(delta)
    IN  IF d.n <= 0 THEN [err |-> ErrDelta, state |-> s]
        ELSE IF ~unapply THEN [err |-> NoErr, state |-> AddU64(s, d.x)]
        ELSE [err |-> NoErr, state |-> SubU64(s, d.x)]

\* GetCurrentStateHash for state s.
StateHashOf(s) == SprintfD(s)

GetCurrentStateHash == StateHashOf(state)

GetBlockchainSize == blockHeight

\* DeepEqualTxs comparing the lists' lengths only.
DeepEqualTxs_LengthOnly(a, b) ==
    /\ a.nil = b.nil
    /\ Len(a.elems) = Len(b.elems)

\* reflect.DeepEqual of two transaction lists: both nil or both non-nil, of
\* one length, and every pair of transactions the same object or equal.
DeepEqualTxs(a, b) ==
    /\ a.nil = b.nil
    /\ Len(a.elems) = Len(b.elems)
    /\ \A i \in 1..Len(a.elems) : a.elems[i] = b.elems[i]

\* The Payloads of a transaction list once commonCommitTx has given every
\* nil Payload in it the default delta of the current height.
FillPayloads(elems) ==
    [i \in 1..Len(elems) |->
        IF elems[i].nil THEN Bytes(SimpleGetStateDelta(blockHeight)) ELSE elems[i]]

\* The transactions of the block commonCommitTx builds: one default
\* transaction for a nil list, else the transactions of txs, payloads filled.
BlockTransactions(txs) ==
    IF txs.nil THEN <<Bytes(SimpleGetStateDelta(blockHeight))>>
    ELSE FillPayloads(txs.elems)

PreviousBlockHashNow_AlwaysGenesis == Genesis

\* previousBlockHash of the block commonCommitTx builds.
PreviousBlockHashNow ==
    IF 0 < blockHeight THEN HashBlock(blocks[blockHeight - 1]) ELSE Genesis

\* The ledger as a call leaves it when it fails before touching anything.
Untouched(err) ==
    [err |-> err, hasBlock |-> FALSE, block |-> NoBlock,
     blocks |-> blocks, blockHeight |-> blockHeight, state |-> state,
     curBatch |-> curBatch]

\* commonCommitTx with a preview taking the state hash after it has unapplied
\* the delta.
commonCommitTx_PreviewHashesLate(id, txs, md, preview) ==
    IF txID # id THEN Untouched(ErrInvalidBatchID)
    ELSE IF ~DeepEqualTxs(txs, curBatch) THEN Untouched(ErrBatchMismatch)
    ELSE LET transactions == BlockTransactions(txs)
             buffer  == FoldPayloads(ZeroBuffer, transactions, 1)
             applied == ApplyStateDeltaTo(state, buffer, FALSE).state
             after   == IF preview
                        THEN ApplyStateDeltaTo(applied, buffer, TRUE).state
                        ELSE applied
             block   == Block(transactions, md, PreviousBlockHashNow,
                              StateHashOf(after))
         IN  [err |-> NoErr, hasBlock |-> TRUE, block |-> block,
              blocks |-> IF preview THEN blocks
                         ELSE StoreBlock(blocks, blockHeight, block),
              blockHeight |-> IF preview THEN blockHeight
                              ELSE PutBlockHeight(blockHeight, blockHeight),
              state |-> after,
              curBatch |-> IF txs.own
                           THEN [curBatch EXCEPT !.elems = FillPayloads(@)]
                           ELSE curBatch]

\* commonCommitTx: the error and block returned, and the ledger and the
\* pending list's transactions as the call leaves them.
commonCommitTx(id, txs, md, preview) ==
    IF txID # id THEN Untouched(ErrInvalidBatchID)
    ELSE IF ~DeepEqualTxs(txs, curBatch) THEN Untouched(ErrBatchMismatch)
    ELSE LET transactions == BlockTransactions(txs)
             buffer  == FoldPayloads(ZeroBuffer, transactions, 1)
             applied == ApplyStateDeltaTo(state, buffer, FALSE).state
             block   == Block(transactions, md, PreviousBlockHashNow,
                              StateHashOf(applied))
         IN  [err |-> NoErr, hasBlock |-> TRUE, block |-> block,
              blocks |-> IF preview THEN blocks
                         ELSE StoreBlock(blocks, blockHeight, block),
              blockHeight |-> IF preview THEN blockHeight
                              ELSE PutBlockHeight(blockHeight, blockHeight),
              state |-> IF preview
                        THEN ApplyStateDeltaTo(applied, buffer, TRUE).state
                        ELSE applied,
              curBatch |-> IF txs.own
                           THEN [curBatch EXCEPT !.elems = FillPayloads(@)]
                           ELSE curBatch]

\* append(mock.curBatch, txs...)
AppendTxs(cur, txs) ==
    IF Len(txs.elems) = 0 THEN cur ELSE Txs(cur.elems \o txs.elems)

RECURSIVE VerifyFrom(_, _, _)
VerifyFrom(start, finish, current) ==
    IF current = finish THEN [index |-> 0, err |-> NoErr]
    ELSE IF current \notin DOMAIN blocks THEN [index |-> current, err |-> ErrNotFound]
    ELSE LET next == IF start < finish THEN current + 1 ELSE current - 1
         IN  IF next \notin DOMAIN blocks
             THEN [index |-> current, err |-> ErrNotFound]
             ELSE IF HashBlock(blocks[next]) # blocks[current].PreviousBlockHash
             THEN [index |-> current, err |-> NoErr]
             ELSE VerifyFrom(start, finish, next)

VerifyBlockchain_SkipsFirst(start, finish) ==
    VerifyFrom(start, finish, IF start > finish THEN start - 1 ELSE start)

\* VerifyBlockchain(start, finish): the index and error returned.
VerifyBlockchain(start, finish) == VerifyFrom(start, finish, start)

(***************************************************************************)
(* Remote ledgers and the chunks of a synchronisation.                     *)
(***************************************************************************)
\* mockRequest
SyncDeltas == "SyncDeltas"
SyncBlocks == "SyncBlocks"
SyncSnapshot == "SyncSnapshot"

\* mockResponse: the three named values, and a value that is none of them.
Normal == "Normal"
Corrupt == "Corrupt"
Timeout == "Timeout"
OtherResponse == "ERROR"

Responses == {Normal, Corrupt, Timeout, OtherResponse}

ErrUnsupported == "Unsupported filter result"

\* "GARBAGE_BLOCK_HASH"
GarbageBlockHash == <<71, 65, 82, 66, 65, 71, 69, 95, 66, 76, 79, 67, 75, 95, 72, 65, 83, 72>>
\* "GARBAGE_STATE_HASH"
GarbageStateHash == <<71, 65, 82, 66, 65, 71, 69, 95, 83, 84, 65, 84, 69, 95, 72, 65, 83, 72>>
\* "GARBAGE_PAYLOAD"
GarbagePayload == <<71, 65, 82, 66, 65, 71, 69, 95, 80, 65, 89, 76, 79, 65, 68>>
\* "GARBAGE_DELTA"
GarbageDelta == <<71, 65, 82, 66, 65, 71, 69, 95, 68, 69, 76, 84, 65>>

\* The block of the corrupt SyncBlocks (no ConsensusMetadata).
GarbageBlock == Block(<<Bytes(GarbagePayload)>>, <<>>, GarbageBlockHash, GarbageStateHash)

\* MockRemoteLedger.GetBlock
RemoteGetBlock(height, blockNumber) ==
    IF blockNumber >= height
    THEN [err |-> "Request block above block height", block |-> NoBlock]
    ELSE [err |-> NoErr, block |-> SimpleGetBlock(blockNumber)]

\* A protos.SyncBlocks or a protos.SyncStateDeltas: the Range, and the
\* Blocks or the Deltas (the other is empty).
RangeChunk(current, blks, deltas) ==
    [Start |-> current, End |-> current, Blocks |-> blks, Deltas |-> deltas]

\* A protos.SyncStateSnapshot; BlockNumber = -1 stands for ^uint64(0).
SnapshotChunk(delta, sequence, blockNumber) ==
    [Delta |-> delta, Sequence |-> sequence, BlockNumber |-> blockNumber]

PayloadsOf_None(block) == <<>>

\* deltas[i] = transaction.Payload
PayloadsOf(block) ==
    [i \in 1..Len(block.Transactions) |-> block.Transactions[i]]

\* The chunk sent for a block the peer has.
TrueChunk(kind, current, block) ==
    IF kind = SyncBlocks
    THEN RangeChunk(current, <<block>>, <<>>)
    ELSE RangeChunk(current, <<>>, PayloadsOf(block))

\* The chunk sent at corruptBlock.
GarbageChunk(kind, current) ==
    IF kind = SyncBlocks
    THEN RangeChunk(current, <<GarbageBlock>>, <<>>)
    ELSE RangeChunk(current, <<>>, <<Bytes(GarbageDelta)>>)

\* corruptBlock := start + (finish - start/2): the division binds first, so
\* this is start + finish - start/2 (the difference may wrap below zero and
\* the sum wraps back; the result is below 2^64 for the indices used here).
CorruptBlock(start, finish) == (start + finish) - (start \div 2)

NextIndex_AlwaysUp(start, finish, current) == current + 1

\* current++ when start < finish, current-- otherwise.
NextIndex(start, finish, current) ==
    IF start < finish THEN current + 1 ELSE current - 1

\* One turn of the producer's for loop at index current: whether it sends,
\* what it sends, and where it goes next ("loop" at the next index, or
\* "close" after a break).
RemoteLoop(kind, ft, start, finish, current, height) ==
    LET found == RemoteGetBlock(height, current)
        corrupt == ft = Corrupt /\ current = CorruptBlock(start, finish)
        sends == corrupt \/ found.err = NoErr
        stop == ~sends \/ current = finish
    IN  [sends |-> sends,
         chunk |-> IF corrupt THEN GarbageChunk(kind, current)
                   ELSE TrueChunk(kind, current, found.block),
         pc |-> IF stop THEN "close" ELSE "loop",
         current |-> IF stop THEN current ELSE NextIndex(start, finish, current)]

NoRequest ==
    [kind |-> "none", ft |-> Normal, dft |-> Normal, start |-> 0, finish |-> 0,
     height |-> 0, err |-> NoErr]

\* What a request call returned: kind, the filter's answers (dft is the
\* answer for the deltas a snapshot asks for), the range, the peer's height
\* as the call read it, and the error.
Request(kind, ft, dft, start, finish, height, err) ==
    [kind |-> kind, ft |-> ft, dft |-> dft, start |-> start, finish |-> finish,
     height |-> height, err |-> err]

NoProducer ==
    [pc |-> "none", kind |-> SyncBlocks, ft |-> Normal, start |-> 0, finish |-> 0,
     current |-> 0]

\* go func() of GetRemoteBlocks / GetRemoteStateDeltas, at current := start.
StartProducer(kind, ft, start, finish) ==
    [pc |-> "loop", kind |-> kind, ft |-> ft, start |-> start, finish |-> finish,
     current |-> start]

NoForwarder == [pc |-> "none", held |-> <<>>, i |-> 0]

\* The switch of GetRemoteBlocks / GetRemoteStateDeltas on the filter's
\* answer: the error returned and the producer started, if any.
RangeRequest(kind, ft, start, finish) ==
    IF ft \in {Corrupt, Normal}
    THEN [err |-> NoErr, producer |-> StartProducer(kind, ft, start, finish)]
    ELSE IF ft = Timeout
    THEN [err |-> NoErr, producer |-> NoProducer]
    ELSE [err |-> ErrUnsupported, producer |-> NoProducer]

(***************************************************************************)
(* Threads on the ledger.                                                  *)
(***************************************************************************)
\* mock.mutex unlocked.
Free == "free"

\* The caller of a remote request before the call: n counts the chunks it
\* has taken from the channel and dealt with.
NoConsumer == [pc |-> "idle", n |-> 0]

\* No thread is inside CommitTxBatch.
NoCommitter ==
    [pc |-> "idle", id |-> NilID, txs |-> TxArg(TRUE, <<>>, FALSE), md |-> <<>>,
     height |-> 0, previousBlockHash |-> <<>>, block |-> NoBlock]

(***************************************************************************)
(* The calls of the Executor, as actions.                                  *)
(***************************************************************************)
BeginTxBatch(id) ==
    /\ IF txID # NilID
       THEN /\ ret' = RetErr("begin", ErrBatchActive)
            /\ UNCHANGED <<txID, curBatch>>
       ELSE /\ txID' = id
            /\ curBatch' = NilTxs
            /\ ret' = RetErr("begin", NoErr)
    /\ UNCHANGED <<blocks, blockHeight, state>>
    /\ UNCHANGED <<syncVars, threadVars>>

\* ExecTXs with mock.inst set and no execTxResult hook.
ExecTXs(txs) ==
    /\ Len(curBatch.elems) + Len(txs.elems) <= MaxTxs
    /\ curBatch' = AppendTxs(curBatch, txs)
    /\ ret' = RetErr("exec", NoErr)
    /\ UNCHANGED <<blocks, blockHeight, state, txID>>
    /\ UNCHANGED <<syncVars, threadVars>>

CommitTxBatch(id, txs, md) ==
    \E r \in {commonCommitTx(id, txs, md, FALSE)} :
        /\ r.err # NoErr \/ blockHeight < MaxHeight
        /\ blocks' = r.blocks
        /\ blockHeight' = r.blockHeight
        /\ state' = r.state
        /\ curBatch' = r.curBatch
        /\ txID' = IF r.err = NoErr THEN NilID ELSE txID
        /\ ret' = RetErr("commit", r.err)
        /\ UNCHANGED <<syncVars, threadVars>>

PreviewCommitTxBatchBlock(id, txs, md) ==
    \E r \in {commonCommitTx(id, txs, md, TRUE)} :
        /\ blocks' = r.blocks
        /\ blockHeight' = r.blockHeight
        /\ state' = r.state
        /\ curBatch' = r.curBatch
        /\ ret' = IF r.err # NoErr THEN RetErr("preview", r.err)
                  ELSE [Ret("preview", NoErr, TRUE, r.block, 0) EXCEPT
                          !.id = id, !.md = md,
                          !.txs = IF txs.nil THEN txs
                                  ELSE TxArg(FALSE, FillPayloads(txs.elems), txs.own)]
        /\ UNCHANGED txID
        /\ UNCHANGED <<syncVars, threadVars>>

RollbackTxBatch(id) ==
    /\ IF txID # id
       THEN /\ ret' = RetErr("rollback", ErrInvalidBatchID)
            /\ UNCHANGED <<txID, curBatch>>
       ELSE /\ curBatch' = NilTxs
            /\ txID' = NilID
            /\ ret' = RetErr("rollback", NoErr)
    /\ UNCHANGED <<blocks, blockHeight, state>>
    /\ UNCHANGED <<syncVars, threadVars>>

\* NewMockLedger
Init ==
    /\ blocks = <<>>
    /\ blockHeight = 0
    /\ state = U64Zero
    /\ txID = NilID
    /\ curBatch = NilTxs
    /\ ret = RetErr("new", NoErr)
    /\ peerHeight = 0
    /\ req = NoRequest
    /\ producer = NoProducer
    /\ forwarder = NoForwarder
    /\ closed = {}
    /\ received = <<>>
    /\ snapshot = <<>>
    /\ consumer = NoConsumer
    /\ committer = NoCommitter
    /\ mutex = Free

Next ==
    \/ \E id \in BatchIDs : BeginTxBatch(id)
    \/ \E txs \in TxLists : ExecTXs(txs)
    \/ \E id \in BatchIDs, txs \in TxArgs, md \in Metadatas : CommitTxBatch(id, txs, md)
    \/ \E id \in BatchIDs, txs \in TxArgs, md \in Metadatas :
          PreviewCommitTxBatchBlock(id, txs, md)
    \/ \E id \in BatchIDs : RollbackTxBatch(id)

Spec == Init /\ [][Next]_vars

(***************************************************************************)
(* The calls of the Ledger, as actions.                                    *)
(***************************************************************************)
PutBlock(blockNumber, block) ==
    /\ blocks' = StoreBlock(blocks, blockNumber, block)
    /\ blockHeight' = PutBlockHeight(blockHeight, blockNumber)
    /\ ret' = RetErr("putBlock", NoErr)
    /\ UNCHANGED <<state, txID, curBatch>>
    /\ UNCHANGED <<syncVars, threadVars>>

ApplyStateDelta(delta, unapply) ==
    \E r \in {ApplyStateDeltaTo(state, delta, unapply)} :
        /\ r.state \in StateWindow
        /\ state' = r.state
        /\ ret' = RetErr(IF unapply THEN "unapply" ELSE "apply", r.err)
        /\ UNCHANGED <<blocks, blockHeight, txID, curBatch>>
        /\ UNCHANGED <<syncVars, threadVars>>

EmptyState ==
    /\ state' = U64Zero
    /\ ret' = RetErr("emptyState", NoErr)
    /\ UNCHANGED <<blocks, blockHeight, txID, curBatch>>
    /\ UNCHANGED <<syncVars, threadVars>>

VerifyBlockchainCall(start, finish) ==
    \E r \in {VerifyBlockchain(start, finish)} :
        /\ ret' = Ret("verify", r.err, FALSE, NoBlock, r.index)
        /\ UNCHANGED <<blocks, blockHeight, state, txID, curBatch>>
        /\ UNCHANGED <<syncVars, threadVars>>

NextLedger ==
    \/ \E n \in Indices, b \in PutBlocks : PutBlock(n, b)
    \/ \E d \in Deltas, unapply \in BOOLEAN : ApplyStateDelta(d, unapply)
    \/ EmptyState
    \/ \E start \in Indices, finish \in Indices : VerifyBlockchainCall(start, finish)

\* The ledger used for state transfer: putBlock, applyStateDelta, emptyState
\* and verifyBlockchain.
SpecLedger == Init /\ [][NextLedger]_vars

(***************************************************************************)
(* Remote synchronisation: one request is followed from the call to the   *)
(* close of its channel, with a consumer that receives whenever a chunk   *)
(* is offered.  A send on the unbuffered channel and the matching receive *)
(* are one step.                                                           *)
(***************************************************************************)
\* MockRemoteLedger.setBlockHeight, before the request is made.
SetBlockHeight(height) ==
    /\ req.kind = "none"
    /\ peerHeight' = height
    /\ UNCHANGED <<req, producer, forwarder, closed, received, snapshot>>
    /\ UNCHANGED <<ledgerVars, threadVars>>

\* GetRemoteBlocks, ft being mock.filter(SyncBlocks, replicaID).
GetRemoteBlocks(ft, start, finish) ==
    /\ req.kind = "none"
    /\ \E r \in {RangeRequest(SyncBlocks, ft, start, finish)} :
         /\ req' = Request(SyncBlocks, ft, ft, start, finish, peerHeight, r.err)
         /\ producer' = r.producer
    /\ UNCHANGED <<peerHeight, forwarder, closed, received, snapshot>>
    /\ UNCHANGED <<ledgerVars, threadVars>>

\* GetRemoteStateDeltas, ft being mock.filter(SyncDeltas, replicaID).
GetRemoteStateDeltas(ft, start, finish) ==
    /\ req.kind = "none"
    /\ \E r \in {RangeRequest(SyncDeltas, ft, start, finish)} :
         /\ req' = Request(SyncDeltas, ft, ft, start, finish, peerHeight, r.err)
         /\ producer' = r.producer
    /\ UNCHANGED <<peerHeight, forwarder, closed, received, snapshot>>
    /\ UNCHANGED <<ledgerVars, threadVars>>

\* GetRemoteStateSnapshot, ft being mock.filter(SyncSnapshot, replicaID) and
\* dft mock.filter(SyncDeltas, replicaID) as its GetRemoteStateDeltas asks.
GetRemoteStateSnapshot(ft, dft) ==
    /\ req.kind = "none"
    /\ IF ft \in {Corrupt, Normal} /\ peerHeight >= 1
       THEN \E r \in {RangeRequest(SyncDeltas, dft, 0, peerHeight - 1)} :
              /\ req' = Request(SyncSnapshot, ft, dft, 0, peerHeight - 1, peerHeight, r.err)
              /\ producer' = r.producer
              /\ forwarder' = IF r.err # NoErr THEN NoForwarder
                              ELSE [pc |-> IF ft = Corrupt THEN "garbage" ELSE "range",
                                    held |-> <<>>, i |-> 0]
       ELSE /\ req' = Request(SyncSnapshot, ft, dft, 0, 0, peerHeight,
                              IF ft \in {Corrupt, Normal, Timeout} THEN NoErr
                              ELSE ErrUnsupported)
            /\ UNCHANGED <<producer, forwarder>>
    /\ UNCHANGED <<peerHeight, closed, received, snapshot>>
    /\ UNCHANGED <<ledgerVars, threadVars>>

\* A turn of the producer's loop that sends a chunk: to the consumer, or,
\* for the deltas of a snapshot, to the forwarder waiting in range rds.
ProduceChunk ==
    /\ producer.pc = "loop"
    /\ \E r \in {RemoteLoop(producer.kind, producer.ft, producer.start,
                            producer.finish, producer.current, peerHeight)} :
         /\ r.sends
         /\ IF req.kind = SyncSnapshot
            THEN /\ forwarder.pc = "range"
                 /\ forwarder' = [forwarder EXCEPT
                                    !.pc = IF r.chunk.Deltas = <<>> THEN "range" ELSE "send",
                                    !.held = r.chunk.Deltas]
                 /\ UNCHANGED received
            ELSE /\ received' = Append(received, r.chunk)
                 /\ UNCHANGED forwarder
         /\ producer' = [producer EXCEPT !.pc = r.pc, !.current = r.current]
    /\ UNCHANGED <<peerHeight, req, closed, snapshot>>
    /\ UNCHANGED <<ledgerVars, threadVars>>

\* A turn of the producer's loop that finds no block on the peer: break.
ProducerBreak ==
    /\ producer.pc = "loop"
    /\ \E r \in {RemoteLoop(producer.kind, producer.ft, producer.start,
                            producer.finish, producer.current, peerHeight)} :
         /\ ~r.sends
         /\ producer' = [producer EXCEPT !.pc = r.pc, !.current = r.current]
    /\ UNCHANGED <<peerHeight, req, forwarder, closed, received, snapshot>>
    /\ UNCHANGED <<ledgerVars, threadVars>>

\* close(res) of the producer; its res is the snapshot's rds.
ProducerClose ==
    /\ producer.pc = "close"
    /\ producer' = [producer EXCEPT !.pc = "done"]
    /\ closed' = closed \cup {IF req.kind = SyncSnapshot THEN "rds" ELSE "res"}
    /\ UNCHANGED <<peerHeight, req, forwarder, received, snapshot>>
    /\ UNCHANGED <<ledgerVars, threadVars>>

\* The forwarder's first send under Corrupt.
SnapshotGarbage ==
    /\ forwarder.pc = "garbage"
    /\ snapshot' = Append(snapshot, SnapshotChunk(Bytes(GarbageDelta), 0, -1))
    /\ forwarder' = [forwarder EXCEPT !.pc = "range"]
    /\ UNCHANGED <<peerHeight, req, producer, closed, received>>
    /\ UNCHANGED <<ledgerVars, threadVars>>

\* The forwarder sends the next delta of the SyncStateDeltas it holds.
SnapshotSend ==
    /\ forwarder.pc = "send"
    /\ snapshot' = Append(snapshot,
                          SnapshotChunk(Head(forwarder.held), forwarder.i, req.height - 1))
    /\ forwarder' = [pc |-> IF Len(forwarder.held) = 1 THEN "range" ELSE "send",
                     held |-> Tail(forwarder.held),
                     i |-> forwarder.i + 1]
    /\ UNCHANGED <<peerHeight, req, producer, closed, received>>
    /\ UNCHANGED <<ledgerVars, threadVars>>

\* range rds ends when rds is closed: close(res).
SnapshotClose ==
    /\ forwarder.pc = "range"
    /\ "rds" \in closed
    /\ forwarder' = [forwarder EXCEPT !.pc = "done"]
    /\ closed' = closed \cup {"res"}
    /\ UNCHANGED <<peerHeight, req, producer, received, snapshot>>
    /\ UNCHANGED <<ledgerVars, threadVars>>

NextSync ==
    \/ \E height \in PeerHeights : SetBlockHeight(height)
    \/ \E ft \in Responses, start \in SyncIndices, finish \in SyncIndices :
          GetRemoteBlocks(ft, start, finish)
    \/ \E ft \in Responses, start \in SyncIndices, finish \in SyncIndices :
          GetRemoteStateDeltas(ft, start, finish)
    \/ \E ft \in Responses, dft \in Responses : GetRemoteStateSnapshot(ft, dft)
    \/ ProduceChunk
    \/ ProducerBreak
    \/ ProducerClose
    \/ SnapshotGarbage
    \/ SnapshotSend
    \/ SnapshotClose

SpecSync == Init /\ [][NextSync]_vars

\* Every goroutine that can take a step eventually takes it (the consumer
\* keeps receiving, so a send is a step of the sender alone).
SpecSyncFair ==
    /\ SpecSync
    /\ WF_vars(ProduceChunk)
    /\ WF_vars(ProducerBreak)
    /\ WF_vars(ProducerClose)
    /\ WF_vars(SnapshotGarbage)
    /\ WF_vars(SnapshotSend)
    /\ WF_vars(SnapshotClose)

(***************************************************************************)
(* State transfer as TestMockLedger does it: the caller of                *)
(* GetRemoteBlocks writes every block it receives with PutBlock and then  *)
(* verifies the chain; the caller of GetRemoteStateSnapshot empties the   *)
(* state and applies every delta it receives.  A chunk is handed over     *)
(* only while the caller is back at its receive.                          *)
(***************************************************************************)
\* The caller is blocked in its receive.
Ready == consumer.pc = "receive" /\ consumer.n = Len(received) + Len(snapshot)

\* What the local ledger went through before the request.
LocalApplyStateDelta(delta) ==
    /\ req.kind = "none"
    /\ ApplyStateDelta(delta, FALSE)

\* The request has returned a channel to the caller.
ConsumerStart ==
    /\ consumer.pc = "idle"
    /\ req.kind \in {SyncBlocks, SyncSnapshot}
    /\ req.err = NoErr
    /\ consumer' = [consumer EXCEPT
                      !.pc = IF req.kind = SyncSnapshot THEN "empty" ELSE "receive"]
    /\ UNCHANGED <<ledgerVars, syncVars, committer, mutex>>

\* ml.EmptyState() before the range over the snapshot.
ConsumerEmptyState ==
    /\ consumer.pc = "empty"
    /\ state' = U64Zero
    /\ ret' = RetErr("emptyState", NoErr)
    /\ consumer' = [consumer EXCEPT !.pc = "receive"]
    /\ UNCHANGED <<blocks, blockHeight, txID, curBatch, syncVars, committer, mutex>>

DeliverChunk == (req.kind = SyncSnapshot \/ Ready) /\ ProduceChunk

DeliverGarbage == Ready /\ SnapshotGarbage

DeliverSnapshot == Ready /\ SnapshotSend

\* The caller's loop over one SyncBlocks: PutBlock(current, Blocks[i]) from
\* Range.Start to Range.End.
RECURSIVE PutBlocksOf(_, _, _, _)
PutBlocksOf(ledger, chunk, current, i) ==
    LET put == [blocks |-> StoreBlock(ledger.blocks, current, chunk.Blocks[i]),
                blockHeight |-> PutBlockHeight(ledger.blockHeight, current)]
    IN  IF current = chunk.End THEN put
        ELSE PutBlocksOf(put, chunk,
                         IF chunk.Start < chunk.End THEN current + 1 ELSE current - 1,
                         i + 1)

ConsumerPutBlocks ==
    /\ consumer.pc = "receive"
    /\ req.kind = SyncBlocks
    /\ consumer.n < Len(received)
    /\ \E l \in {PutBlocksOf([blocks |-> blocks, blockHeight |-> blockHeight],
                             received[consumer.n + 1],
                             received[consumer.n + 1].Start, 1)} :
         /\ blocks' = l.blocks
         /\ blockHeight' = l.blockHeight
    /\ ret' = RetErr("putBlock", NoErr)
    /\ consumer' = [consumer EXCEPT !.n = @ + 1]
    /\ UNCHANGED <<state, txID, curBatch, syncVars, committer, mutex>>

\* ml.ApplyStateDelta(syncStateMessage.Delta, false); an error ends the test.
ConsumerApplyStateDelta ==
    /\ consumer.pc = "receive"
    /\ req.kind = SyncSnapshot
    /\ consumer.n < Len(snapshot)
    /\ \E r \in {ApplyStateDeltaTo(state, snapshot[consumer.n + 1].Delta.bytes, FALSE)} :
         /\ state' = r.state
         /\ ret' = RetErr("apply", r.err)
         /\ consumer' = [pc |-> IF r.err = NoErr THEN "receive" ELSE "failed",
                         n |-> consumer.n + 1]
    /\ UNCHANGED <<blocks, blockHeight, txID, curBatch, syncVars, committer, mutex>>

\* The range over the blocks has ended: VerifyBlockchain from the top of the
\* range down to 0.
ConsumerVerify ==
    /\ consumer.pc = "receive"
    /\ req.kind = SyncBlocks
    /\ "res" \in closed
    /\ consumer.n = Len(received)
    /\ \E r \in {VerifyBlockchain(IF req.start < req.finish THEN req.finish ELSE req.start, 0)} :
         ret' = Ret("verify", r.err, FALSE, NoBlock, r.index)
    /\ consumer' = [consumer EXCEPT !.pc = "done"]
    /\ UNCHANGED <<blocks, blockHeight, state, txID, curBatch, syncVars, committer, mutex>>

\* The range over the snapshot has ended: GetCurrentStateHash.
ConsumerStateHash ==
    /\ consumer.pc = "receive"
    /\ req.kind = SyncSnapshot
    /\ "res" \in closed
    /\ consumer.n = Len(snapshot)
    /\ ret' = RetErr("getCurrentStateHash", NoErr)
    /\ consumer' = [consumer EXCEPT !.pc = "done"]
    /\ UNCHANGED <<blocks, blockHeight, state, txID, curBatch, syncVars, committer, mutex>>

NextTransfer ==
    \/ \E height \in PeerHeights : SetBlockHeight(height)
    \/ \E delta \in Deltas : LocalApplyStateDelta(delta)
    \/ \E ft \in Responses, start \in SyncIndices, finish \in SyncIndices :
          GetRemoteBlocks(ft, start, finish)
    \/ \E ft \in Responses, dft \in Responses : GetRemoteStateSnapshot(ft, dft)
    \/ ConsumerStart
    \/ ConsumerEmptyState
    \/ DeliverChunk
    \/ ProducerBreak
    \/ ProducerClose
    \/ DeliverGarbage
    \/ DeliverSnapshot
    \/ SnapshotClose
    \/ ConsumerPutBlocks
    \/ ConsumerApplyStateDelta
    \/ ConsumerVerify
    \/ ConsumerStateHash

SpecTransfer == Init /\ [][NextTransfer]_vars

(***************************************************************************)
(* Two threads on one ledger: the executor's thread, inside CommitTxBatch  *)
(* statement by statement, and a state-transfer thread calling PutBlock.   *)
(* A thread's pc names the source line it executes next, or the Lock or    *)
(* Unlock of the ledger method it is in.  An unlocked read of a field      *)
(* another thread writes returns the value before or after that write:     *)
(* the read is a step of its own.                                          *)
(***************************************************************************)
Committer == "committer"
Writer == "consumer"

\* Batch IDs and transaction lists the executor's thread uses here.
ThreadBatchIDs == {"a"}
ThreadTxLists == {Txs(<<p>>) : p \in Payloads}

\* The list committed: the pending list itself, or nil.
ThreadTxArgs == {TxArg(FALSE, curBatch.elems, TRUE), TxArg(TRUE, <<>>, FALSE)}

\* The executor's thread between two calls.
ThreadBeginTxBatch(id) == committer.pc = "idle" /\ BeginTxBatch(id)

ThreadExecTXs(txs) == committer.pc = "idle" /\ ExecTXs(txs)

\* CommitTxBatch is called: lines 137-142 of commonCommitTx.
CommitCall(id, txs, md) ==
    /\ committer.pc = "idle"
    /\ blockHeight < MaxHeight
    /\ IF txID # id
       THEN ret' = RetErr("commit", ErrInvalidBatchID) /\ UNCHANGED committer
       ELSE IF ~DeepEqualTxs(txs, curBatch)
       THEN ret' = RetErr("commit", ErrBatchMismatch) /\ UNCHANGED committer
       ELSE /\ committer' = [NoCommitter EXCEPT !.pc = "145", !.id = id,
                                                !.txs = txs, !.md = md]
            /\ UNCHANGED ret
    /\ UNCHANGED <<blocks, blockHeight, state, txID, curBatch, syncVars, consumer, mutex>>

\* if 0 < mock.blockHeight
Commit145 ==
    /\ committer.pc = "145"
    /\ committer' = [committer EXCEPT
                       !.pc = IF 0 < blockHeight THEN "146" ELSE "152",
                       !.previousBlockHash = Genesis]
    /\ UNCHANGED <<ledgerVars, syncVars, consumer, mutex>>

\* mock.blockHeight - 1, the argument of GetBlock
Commit146 ==
    /\ committer.pc = "146"
    /\ committer' = [committer EXCEPT !.pc = "GetBlock.Lock", !.height = blockHeight - 1]
    /\ UNCHANGED <<ledgerVars, syncVars, consumer, mutex>>

\* The pc after each Lock and each Unlock of the committer.
AfterLock ==
    [p \in {"GetBlock.Lock", "ApplyStateDelta.Lock", "GetCurrentStateHash.Lock",
            "PutBlock.Lock"} |->
        CASE p = "GetBlock.Lock" -> "213"
          [] p = "ApplyStateDelta.Lock" -> "411"
          [] p = "GetCurrentStateHash.Lock" -> "437"
          [] p = "PutBlock.Lock" -> "399"]

AfterUnlock ==
    [p \in {"GetBlock.Unlock", "ApplyStateDelta.Unlock", "GetCurrentStateHash.Unlock",
            "PutBlock.Unlock"} |->
        CASE p = "GetBlock.Unlock" -> "152"
          [] p = "ApplyStateDelta.Unlock" -> "GetCurrentStateHash.Lock"
          [] p = "GetCurrentStateHash.Unlock" -> "181"
          [] p = "PutBlock.Unlock" -> "131"]

\* mock.mutex.Lock()
CommitterLock ==
    /\ committer.pc \in DOMAIN AfterLock
    /\ mutex = Free
    /\ mutex' = Committer
    /\ committer' = [committer EXCEPT !.pc = AfterLock[committer.pc]]
    /\ UNCHANGED <<ledgerVars, syncVars, consumer>>

\* the deferred mock.mutex.Unlock()
CommitterUnlock ==
    /\ committer.pc \in DOMAIN AfterUnlock
    /\ mutex' = Free
    /\ committer' = [committer EXCEPT !.pc = AfterUnlock[committer.pc]]
    /\ UNCHANGED <<ledgerVars, syncVars, consumer>>

\* GetBlock reads mock.blocks[id]; HashBlock of what it returned.
Commit213 ==
    /\ committer.pc = "213"
    /\ committer' = IF committer.height \in DOMAIN blocks
                    THEN [committer EXCEPT
                            !.pc = "GetBlock.Unlock",
                            !.previousBlockHash = HashBlock(blocks[committer.height])]
                    ELSE [committer EXCEPT !.pc = "panic"]
    /\ UNCHANGED <<ledgerVars, syncVars, consumer, mutex>>

\* Lines 150-164: the default transaction or the default payloads, with
\* mock.blockHeight as it is now.
Commit152 ==
    /\ committer.pc = "152"
    /\ committer' = [committer EXCEPT
                       !.pc = "ApplyStateDelta.Lock",
                       !.block = Block(BlockTransactions(committer.txs), committer.md,
                                       committer.previousBlockHash, <<>>)]
    /\ curBatch' = IF committer.txs.own
                   THEN [curBatch EXCEPT !.elems = FillPayloads(@)]
                   ELSE curBatch
    /\ UNCHANGED <<blocks, blockHeight, state, txID, ret, syncVars, consumer, mutex>>

\* ApplyStateDelta(buffer, false) under the mutex.
Commit411 ==
    /\ committer.pc = "411"
    /\ state' = ApplyStateDeltaTo(state,
                                  FoldPayloads(ZeroBuffer, committer.block.Transactions, 1),
                                  FALSE).state
    /\ committer' = [committer EXCEPT !.pc = "ApplyStateDelta.Unlock"]
    /\ UNCHANGED <<blocks, blockHeight, txID, curBatch, ret, syncVars, consumer, mutex>>

\* GetCurrentStateHash under the mutex; the block is built from it.
Commit437 ==
    /\ committer.pc = "437"
    /\ committer' = [committer EXCEPT !.pc = "GetCurrentStateHash.Unlock",
                                      !.block.StateHash = StateHashOf(state)]
    /\ UNCHANGED <<ledgerVars, syncVars, consumer, mutex>>

\* mock.blockHeight, the argument of PutBlock (and of the Printf before it).
Commit181 ==
    /\ committer.pc = "181"
    /\ committer' = [committer EXCEPT !.pc = "PutBlock.Lock", !.height = blockHeight]
    /\ UNCHANGED <<ledgerVars, syncVars, consumer, mutex>>

\* mock.blocks[blockNumber] = block
Commit399 ==
    /\ committer.pc = "399"
    /\ blocks' = StoreBlock(blocks, committer.height, committer.block)
    /\ committer' = [committer EXCEPT !.pc = "400"]
    /\ UNCHANGED <<blockHeight, state, txID, curBatch, ret, syncVars, consumer, mutex>>

\* if blockNumber >= mock.blockHeight { mock.blockHeight = blockNumber + 1 }
Commit400 ==
    /\ committer.pc = "400"
    /\ blockHeight' = PutBlockHeight(blockHeight, committer.height)
    /\ committer' = [committer EXCEPT !.pc = "PutBlock.Unlock"]
    /\ UNCHANGED <<blocks, state, txID, curBatch, ret, syncVars, consumer, mutex>>

\* mock.txID = nil; CommitTxBatch returns.
Commit131 ==
    /\ committer.pc = "131"
    /\ txID' = NilID
    /\ ret' = RetErr("commit", NoErr)
    /\ committer' = NoCommitter
    /\ UNCHANGED <<blocks, blockHeight, state, curBatch, syncVars, consumer, mutex>>

\* The state-transfer thread calls PutBlock with a block of the peer.
WriterCall(blockNumber) ==
    /\ consumer.pc = "idle"
    /\ consumer' = [consumer EXCEPT !.pc = "PutBlock.Lock", !.n = blockNumber]
    /\ UNCHANGED <<ledgerVars, syncVars, committer, mutex>>

WriterLock ==
    /\ consumer.pc = "PutBlock.Lock"
    /\ mutex = Free
    /\ mutex' = Writer
    /\ consumer' = [consumer EXCEPT !.pc = "399"]
    /\ UNCHANGED <<ledgerVars, syncVars, committer>>

Writer399 ==
    /\ consumer.pc = "399"
    /\ blocks' = StoreBlock(blocks, consumer.n, SimpleGetBlock(consumer.n))
    /\ consumer' = [consumer EXCEPT !.pc = "400"]
    /\ UNCHANGED <<blockHeight, state, txID, curBatch, ret, syncVars, committer, mutex>>

Writer400 ==
    /\ consumer.pc = "400"
    /\ blockHeight' = PutBlockHeight(blockHeight, consumer.n)
    /\ consumer' = [consumer EXCEPT !.pc = "PutBlock.Unlock"]
    /\ UNCHANGED <<blocks, state, txID, curBatch, ret, syncVars, committer, mutex>>

WriterUnlock ==
    /\ consumer.pc = "PutBlock.Unlock"
    /\ mutex' = Free
    /\ consumer' = NoConsumer
    /\ UNCHANGED <<ledgerVars, syncVars, committer>>

NextThreads ==
    \/ \E id \in ThreadBatchIDs : ThreadBeginTxBatch(id)
    \/ \E txs \in ThreadTxLists : ThreadExecTXs(txs)
    \/ \E id \in ThreadBatchIDs, txs \in ThreadTxArgs, md \in Metadatas : CommitCall(id, txs, md)
    \/ Commit145
    \/ Commit146
    \/ CommitterLock
    \/ CommitterUnlock
    \/ Commit213
    \/ Commit152
    \/ Commit411
    \/ Commit437
    \/ Commit181
    \/ Commit399
    \/ Commit400
    \/ Commit131
    \/ \E n \in Indices : WriterCall(n)
    \/ WriterLock
    \/ Writer399
    \/ Writer400
    \/ WriterUnlock

SpecThreads == Init /\ [][NextThreads]_vars

(***************************************************************************)
(* Properties of the Executor (specification Spec).                        *)
(***************************************************************************)
\* Two transaction lists hold the same transactions in the same order.
SameTransactions(a, b) == a.elems = b.elems

executorLedger == <<txID, curBatch, blocks, blockHeight, state>>

\* C2: while a batch is active, a commit with another ID, a commit with the
\* active ID and a transaction list that is not the pending list, and a
\* rollback with another ID all fail, and leave the batch active with its
\* pending list and the ledger's blocks, height and state as they were.
C2_MismatchRejected ==
    [][(txID # NilID /\ ret'.op \in {"commit", "rollback"})
       => \A id \in BatchIDs :
            /\ \A txs \in TxArgs, md \in Metadatas :
                 ( /\ id # txID \/ ~SameTransactions(txs, curBatch)
                   /\ CommitTxBatch(id, txs, md) )
                 => (ret'.err # NoErr /\ UNCHANGED executorLedger)
            /\ (id # txID /\ RollbackTxBatch(id))
                 => (ret'.err # NoErr /\ UNCHANGED executorLedger)
      ]_vars

\* A commit has just failed on its transaction list while a batch with a
\* non-empty pending list is active, above the genesis height.
C2_Witness ==
    /\ ret.op = "commit"
    /\ ret.err = ErrBatchMismatch
    /\ txID = "a"
    /\ Len(curBatch.elems) > 0
    /\ blockHeight > 0

\* C3: while no batch is active, commit and rollback fail for every ID and
\* every transaction list, and commit stores no block.
C3_IdleRejectsCommitAndRollback ==
    [][\A id \in BatchIDs :
         /\ \A txs \in TxArgs, md \in Metadatas :
              (txID = NilID /\ CommitTxBatch(id, txs, md))
              => (ret'.err # NoErr /\ blocks' = blocks)
         /\ (txID = NilID /\ RollbackTxBatch(id)) => ret'.err # NoErr
      ]_vars

\* C4: once a begin has succeeded, for any ID, the next begin fails.
C4_SecondBeginFails ==
    [][\A id \in BatchIDs :
         (ret.op = "begin" /\ ret.err = NoErr /\ BeginTxBatch(id))
         => (ret'.err # NoErr /\ UNCHANGED <<txID, curBatch>>)
      ]_vars

\* C5: execTXs called while no batch is active leaves the pending list
\* unchanged.
C5_ExecOnlyWhileActive ==
    [][\A txs \in TxLists :
         (txID = NilID /\ ExecTXs(txs)) => curBatch' = curBatch
      ]_vars

\* C6: a preview, whatever its arguments and whether it succeeds or fails,
\* leaves getBlockchainSize(), getCurrentStateHash() and the stored blocks
\* as they were.  (The state hash is a function of the state: it is computed
\* and compared only where the step has changed the state.)
C6_PreviewLeavesLedger ==
    [][ret'.op = "preview"
       => /\ GetBlockchainSize' = GetBlockchainSize
          /\ state' # state => GetCurrentStateHash' = GetCurrentStateHash
          /\ blocks' = blocks
      ]_vars

\* A preview has succeeded above the genesis height with a block whose state
\* hash is not the current one: it applied a delta and took it back.
C6_Witness ==
    /\ ret.op = "preview"
    /\ ret.err = NoErr
    /\ txID # NilID
    /\ blockHeight > 0
    /\ ret.block.StateHash # GetCurrentStateHash

Linked(lo, hi) ==
    \A i \in lo..hi :
        /\ i \in DOMAIN blocks
        /\ i > lo => blocks[i].PreviousBlockHash = HashBlock(blocks[i - 1])

Lower(a, b) == IF a < b THEN a ELSE b
Higher(a, b) == IF a < b THEN b ELSE a

\* C1: over a range of stored, correctly linked blocks, verifyBlockchain
\* returns (0, no error) for every start and finish in the range, ascending
\* or descending.
C1_LinkedRangeVerifies ==
    [][ret'.op = "verify"
       => \A start \in Indices, finish \in Indices :
            ( /\ Linked(Lower(start, finish), Higher(start, finish))
              /\ VerifyBlockchainCall(start, finish) )
            => (ret'.index = 0 /\ ret'.err = NoErr)
      ]_vars

(***************************************************************************)
(* Properties of remote synchronisation (specification SpecSync).          *)
(***************************************************************************)
\* The call returned a channel: no error.
Returned(kinds) == req.kind \in kinds /\ req.err = NoErr

\* C8: when the filter answers Timeout, the request returns without error a
\* channel that is closed and has delivered no chunk.
C8_TimeoutClosedEmpty ==
    (req.kind \in {SyncBlocks, SyncDeltas, SyncSnapshot} /\ req.ft = Timeout)
    => /\ req.err = NoErr
       /\ received = <<>>
       /\ snapshot = <<>>
       /\ "res" \in closed

\* The k-th index of the range from start toward finish.
RangeIndex(start, finish, k) ==
    IF start <= finish THEN start + (k - 1) ELSE start - (k - 1)

RangeLength(start, finish) == Higher(start, finish) - Lower(start, finish) + 1

\* The peer's data for index n, as a chunk of the request's kind.
PeerData(kind, n) ==
    IF kind = SyncBlocks
    THEN [Start |-> n, End |-> n, Blocks |-> <<SimpleGetBlock(n)>>, Deltas |-> <<>>]
    ELSE [Start |-> n, End |-> n, Blocks |-> <<>>,
          Deltas |-> <<Bytes(SimpleGetStateDelta(n))>>]

\* C9: a closed Corrupt block or delta sequence over a range whose indices
\* all exist on the peer has one chunk per index of the range, in order, and
\* exactly one of them, at some index g of the range, is not the peer's
\* data for its index.
C9_CorruptExactlyOneInRange ==
    ( /\ Returned({SyncBlocks, SyncDeltas})
      /\ req.ft = Corrupt
      /\ "res" \in closed
      /\ Higher(req.start, req.finish) < peerHeight )
    => /\ Len(received) = RangeLength(req.start, req.finish)
       /\ \E g \in Lower(req.start, req.finish)..Higher(req.start, req.finish) :
             \A k \in 1..Len(received) :
                 LET n == RangeIndex(req.start, req.finish, k)
                 IN  /\ received[k].Start = n
                     /\ received[k].End = n
                     /\ (received[k] = PeerData(req.kind, n)) <=> (n # g)

\* How many indices of the range, from start on, come before the first one
\* the peer does not have.
Served(start, finish, height) ==
    CHOOSE n \in 0..RangeLength(start, finish) :
        /\ \A k \in 1..n : RangeIndex(start, finish, k) < height
        /\ n = RangeLength(start, finish) \/ RangeIndex(start, finish, n + 1) >= height

\* C10: under Normal, the chunks received from a block or delta request are
\* the peer's data for start, the next index toward finish, and so on, one
\* chunk per index, never past finish nor past the first index the peer
\* does not have; once the channel is closed all of them have been received.
C10_NormalInOrderThenClosed ==
    (Returned({SyncBlocks, SyncDeltas}) /\ req.ft = Normal)
    => \E served \in {Served(req.start, req.finish, peerHeight)} :
         /\ Len(received) <= served
         /\ \A k \in 1..Len(received) :
               received[k] = PeerData(req.kind, RangeIndex(req.start, req.finish, k))
         /\ "res" \in closed => Len(received) = served

\* A descending Normal block request over three indices has been served in
\* full and its channel closed.
C10_Witness ==
    /\ Returned({SyncBlocks})
    /\ req.ft = Normal
    /\ req.start > req.finish
    /\ Len(received) = 3
    /\ received[3].Start = req.finish
    /\ "res" \in closed

(***************************************************************************)
(* A forged block (specification SpecLedger).                              *)
(***************************************************************************)
\* The stored blocks with block k replaced by orig.
BlockOr(k, orig, i) == IF i = k THEN orig ELSE blocks[i]

\* Blocks 0..n are all stored and, with orig in the place of block k, each
\* but the first names the hash of the block before it.
LinkedBut(k, orig, n) ==
    \A i \in 0..n :
        /\ i \in DOMAIN blocks
        /\ i > 0 => BlockOr(k, orig, i).PreviousBlockHash = HashBlock(BlockOr(k, orig, i - 1))

\* C11: when blocks 0..n were stored and linked and block k < n has been
\* overwritten by a block with another hash than the original's,
\* verifyBlockchain(n, 0) returns (k + 1, no error).
C11_ForgedBlockFound ==
    [][ret'.op = "verify"
       => \A n \in Indices, k \in Indices, orig \in PutBlocks :
            ( /\ k < n
              /\ LinkedBut(k, orig, n)
              /\ HashBlock(blocks[k]) # HashBlock(orig)
              /\ VerifyBlockchainCall(n, 0) )
            => (ret'.index = k + 1 /\ ret'.err = NoErr)
      ]_vars

\* Blocks 0..MaxIndex are the simple blocks but for block MaxIndex - 1, the
\* forged block of TestMockLedger, and a verification has returned MaxIndex.
C11_Witness ==
    /\ ret.op = "verify"
    /\ ret.err = NoErr
    /\ ret.index = MaxIndex
    /\ DOMAIN blocks = 0..MaxIndex
    /\ blocks[MaxIndex - 1] = WrongBlock
    /\ \A i \in 0..MaxIndex : i # MaxIndex - 1 => blocks[i] = SimpleGetBlock(i)

(***************************************************************************)
(* Properties of state transfer (specification SpecTransfer).              *)
(***************************************************************************)
\* C12: when every block of a Normal block request over the full range of a
\* peer of height h >= 1, ascending or descending, has been written with
\* putBlock into a ledger that held no block, blocks 0..h-1 are stored, the
\* height is h and verifyBlockchain(h-1, 0) returns (0, no error).
C12_FullSyncVerifies ==
    ( /\ consumer.pc = "done"
      /\ req.kind = SyncBlocks
      /\ req.ft = Normal
      /\ peerHeight >= 1
      /\ {req.start, req.finish} = {0, peerHeight - 1} )
    => /\ DOMAIN blocks = 0..(peerHeight - 1)
       /\ GetBlockchainSize = peerHeight
       /\ ret.op = "verify"
       /\ ret.index = 0
       /\ ret.err = NoErr

\* The full range of the highest peer has been fetched descending, as the
\* test does, written and verified.
C12_Witness ==
    /\ consumer.pc = "done"
    /\ req.kind = SyncBlocks
    /\ req.ft = Normal
    /\ peerHeight = MaxPeerHeight
    /\ req.start = peerHeight - 1
    /\ req.finish = 0
    /\ consumer.n = peerHeight

\* C13: for a peer of height h >= 1 with every filter answer Normal, after
\* emptyState no applyStateDelta of a snapshot chunk fails, and when all
\* chunks have been applied the state hash is the stateHash of the peer's
\* block h-1.
C13_SnapshotReplayReachesPeerState ==
    ( /\ req.kind = SyncSnapshot
      /\ req.ft = Normal
      /\ req.dft = Normal
      /\ req.err = NoErr
      /\ peerHeight >= 1 )
    => /\ consumer.pc # "failed"
       /\ (consumer.n > 0 /\ ret.op = "apply") => ret.err = NoErr
       /\ consumer.pc = "done"
            => GetCurrentStateHash = SimpleGetBlock(peerHeight - 1).StateHash

\* All the deltas of the highest peer's snapshot have been applied.
C13_Witness ==
    /\ consumer.pc = "done"
    /\ req.kind = SyncSnapshot
    /\ req.ft = Normal
    /\ req.dft = Normal
    /\ peerHeight = MaxPeerHeight
    /\ consumer.n = peerHeight

CommitterAccesses == {"145", "146", "213", "411", "437", "181", "399", "400"}
WriterAccesses == {"399", "400"}

\* C15: a thread about to read or write blocks, blockHeight or state holds
\* the mutex, in CommitTxBatch as in PutBlock, so two threads are never at
\* such a statement together.
C15_SharedFieldsUnderMutex ==
    /\ committer.pc \in CommitterAccesses => mutex = Committer
    /\ consumer.pc \in WriterAccesses => mutex = Writer
    /\ ~(committer.pc \in CommitterAccesses /\ consumer.pc \in WriterAccesses)

\* C20: when a commit running beside PutBlock calls stores its block, the
\* index held no block before, and for an index above 0 the block's
\* previousBlockHash is the hash of the block stored just below it at that
\* moment.
C20_CommitKeepsChain ==
    [][(committer.pc = "399" /\ committer'.pc = "400")
       => /\ committer.height \notin DOMAIN blocks
          /\ committer.height > 0
               => /\ committer.height - 1 \in DOMAIN blocks
                  /\ committer.block.PreviousBlockHash
                         = HashBlock(blocks[committer.height - 1])
      ]_vars

(***************************************************************************)
(* The chain and the state the executor builds (specification Spec).       *)
(***************************************************************************)
\* Block 0 names the genesis sentinel, every other stored block the hash of
\* the block stored just below it.
ChainLinked ==
    \A n \in DOMAIN blocks :
        IF n = 0 THEN blocks[n].PreviousBlockHash = Genesis
        ELSE /\ n - 1 \in DOMAIN blocks
             /\ blocks[n].PreviousBlockHash = HashBlock(blocks[n - 1])

\* C16: a successful commit stores exactly one block, at the index equal to
\* the height before it, and raises the height by one; after every step of
\* the executor the stored blocks are linked from the genesis sentinel.
C16_CommitExtendsChain ==
    [][ /\ (ret'.op = "commit" /\ ret'.err = NoErr)
             => /\ blockHeight \notin DOMAIN blocks
                /\ DOMAIN blocks' = DOMAIN blocks \cup {blockHeight}
                /\ \A i \in DOMAIN blocks : blocks'[i] = blocks[i]
                /\ blockHeight' = blockHeight + 1
        /\ ChainLinked'
      ]_vars

\* Two commits have succeeded, the last one of a batch of MaxTxs
\* transactions.
C16_Witness ==
    /\ ret.op = "commit"
    /\ ret.err = NoErr
    /\ blockHeight = MaxHeight
    /\ Len(blocks[MaxHeight - 1].Transactions) = MaxTxs

\* s plus the deltas payloads[i..] decode to, modulo 2^64.
RECURSIVE PlusDeltas(_, _, _)
PlusDeltas(s, payloads, i) ==
    IF i > Len(payloads) THEN s
    ELSE PlusDeltas(AddU64(s, Uvarint(payloads[i].bytes).x), payloads, i + 1)

\* C17: a successful commit of k >= 1 transactions whose payloads are
\* all there and decode as unsigned varints leaves the state at the former state plus their sum
\* modulo 2^64, and the stored block's stateHash is the encoding of it.
C17_CommitAddsDeltas ==
    [][(ret'.op = "commit" /\ ret'.err = NoErr)
       => \A id \in BatchIDs, txs \in TxArgs, md \in Metadatas :
            ( /\ Len(txs.elems) >= 1
              /\ \A i \in 1..Len(txs.elems) :
                    ~txs.elems[i].nil /\ Uvarint(txs.elems[i].bytes).n > 0
              /\ CommitTxBatch(id, txs, md) )
            => /\ state' = PlusDeltas(state, txs.elems, 1)
               /\ blocks'[blockHeight].StateHash = StateHashOf(state')
      ]_vars

(***************************************************************************)
(* Snapshots and termination (specifications SpecSync, SpecSyncFair).      *)
(***************************************************************************)
\* C18: the chunks of a snapshot sequence from a peer of height h >= 1
\* carry the Sequence numbers 0, 1, 2, ... in order and BlockNumber h-1,
\* whatever the filter answers.
C18_SnapshotSequenceAndBlockNumber ==
    (Returned({SyncSnapshot}) /\ peerHeight >= 1)
    => \A k \in 1..Len(snapshot) :
          /\ snapshot[k].Sequence = k - 1
          /\ snapshot[k].BlockNumber = peerHeight - 1

\* C19: the channel a request returned without error under Normal or
\* Corrupt is eventually closed.
C19_EverySequenceCloses ==
    (Returned({SyncBlocks, SyncDeltas, SyncSnapshot}) /\ req.ft \in {Normal, Corrupt})
        ~> ("res" \in closed)
====
